---- MODULE Spec2Model ----
(***************************************************************************)
(* Model of immich-pixstar-sync: the per-account sync engine (main.py),    *)
(* the seen-state store (state_store.py), the paginated favorites fetch    *)
(* (immich_client.py) and the attachment policy of the mailer              *)
(* (pixstar_mailer.py).                                                    *)
(*                                                                         *)
(* One process runs main(): it resolves user ids, builds the StateStore    *)
(* (which loads the store file), selects loop mode or one-shot forced      *)
(* mode, and then runs sync_account_once per account.  The environment can *)
(* kill the process at any step, interrupt it, and start it again.         *)
(***************************************************************************)
EXTENDS Integers, Sequences, FiniteSets, TLC

VARIABLES
    pc,              \* position of the process in main() / sync_account_once()
    args,            \* the parsed command line
    force,           \* force_resend of the current mode (TRUE in one-shot mode)
    targets,         \* the accounts the current mode iterates over
    pos,             \* index into targets of the account being processed
    mem,             \* StateStore._data : account -> list of asset ids
    disk,            \* the store file at the real path
    tmp,             \* the temporary sibling file "<path>.tmp"
    email,           \* account.immich_email of the running sync_account_once
    favorites,       \* the list get_favorites() returned
    seen_ids,        \* the snapshot state_store.get_seen(email) of this run
    assets_to_send,  \* the candidate list of this run
    idx,             \* position of the per-asset loop in assets_to_send
    sent,            \* how the last send_photo() call ended
    run,             \* "idle", "running" or "returned": the sync_account_once call
    fetchOk,         \* whether get_favorites() of this run returned a list
    faultHit,        \* history: the page of this run's fetch that was failed, or 0
    runLog,          \* history: per-candidate outcome of this run
    memAtStart,      \* history: mem when this run started
    recorded,        \* history: <<account, id>> whose add_seen() completed, ever
    known,           \* history: <<account, id>> this process loaded or added
    saveCtx,         \* history: store file before and after the _save() in progress
    lastAdd,         \* history: the add_seen() call that has just returned
    prevFailed,      \* history: account -> ids that failed and were not sent since
    fIn,             \* input of a stand-alone get_favorites() call
    fOut,            \* its result
    tpc,             \* threads calling add_seen: position of each thread
    tcall,           \* the (account, id) each thread passes to add_seen
    lock,            \* StateStore._lock: the thread holding it, or NoThread
    writers,         \* history: threads that have the temporary file open
    flushOk,         \* history: whether the last _save that ended had succeeded
    sIn,             \* what the store path holds when a StateStore is constructed
    sOut,            \* whether the constructor has ended, and how
    sLast,           \* history: the last add_seen call on that store
    sAdds,           \* number of add_seen calls made on that store
    gIn,             \* arguments of a stand-alone send_photo() call
    gOut,            \* what the call did
    dIn,             \* size of the image given to downscale_for_pixstar()
    dOut             \* size of the image it returned

modeVars == <<args, force, targets>>

storeVars == <<mem, disk, tmp>>

histVars == <<recorded, known, saveCtx, lastAdd>>

fetchVars == <<fIn, fOut>>

lockVars == <<tpc, tcall, lock, writers, flushOk>>

ctorVars == <<sIn, sOut, sLast, sAdds>>

mailVars == <<gIn, gOut, dIn, dOut>>

\* the stand-alone calls of the store, the fetcher and the mailer
aloneVars == <<fetchVars, lockVars, ctorVars, mailVars>>

\* what the per-asset loop of one run leaves alone
runFrame == <<email, favorites, seen_ids, assets_to_send, fetchOk, faultHit, memAtStart>>

\* the engine: everything main() and sync_account_once() read or write
engineVars == <<pc, pos, idx, sent, run, runLog, prevFailed, modeVars, histVars,
                runFrame>>

vars == <<pc, pos, idx, sent, run, runLog, prevFailed, modeVars, storeVars,
          histVars, runFrame, aloneVars>>

-----------------------------------------------------------------------------
(* Bounds of the model *)

MaxFav == 2        \* longest favorites list the server holds in the engine model
PageSize == 2      \* page size of the engine's fetches (scaled down)
MaxN == 4          \* server items in a stand-alone fetch
MaxP == 3          \* page sizes in a stand-alone fetch
MaxCeil == 2       \* max_pages ceilings in a stand-alone fetch
MaxThreads == 2    \* threads calling add_seen on one StateStore
MaxItems == 2      \* longest array of a store file read by a constructor
MaxAdds == 2       \* add_seen calls following a constructor
GateSpan == 4      \* attachment sizes this far below and above the video cap
DimSpan == 2       \* image sides this far around 1, the maximum and its double

-----------------------------------------------------------------------------
(* Configuration: the accounts of pixstar_mapping.json, in file order *)

AccountList == <<"alice", "bob">>

Accounts == {AccountList[i] : i \in 1..Len(AccountList)}

NoUser == ""

\* The command line: --resend-all, --user <email>, --all-users
\* (--user and --all-users are only read together with --resend-all)
Args == {a \in [resend_all : BOOLEAN, user : {NoUser, "alice", "carol"},
                all_users : BOOLEAN] :
            ~a.resend_all => (a.user = NoUser /\ ~a.all_users)}

NoArgs == [resend_all |-> FALSE, user |-> NoUser, all_users |-> FALSE]

-----------------------------------------------------------------------------
(* Assets the photo service can list *)

MAX_VIDEO_BYTES == 15 * 1024 * 1024

NoId == ""

Photo == [dict |-> TRUE, id |-> "p1", ext |-> "jpg", size |-> 4096]

BigVideo == [dict |-> TRUE, id |-> "v1", ext |-> "mp4", size |-> MAX_VIDEO_BYTES + 1]

\* an item without "id"
NoIdItem == [dict |-> TRUE, id |-> NoId, ext |-> "", size |-> 4096]

\* an item that is not a JSON object
BadItem == [dict |-> FALSE, id |-> NoId, ext |-> "", size |-> 0]

\* What each account's library holds on the photo service
Library(a) == IF a = "alice" THEN {Photo, BigVideo, NoIdItem, BadItem} ELSE {Photo}

SeqsUpTo(S, n) == UNION {[1..k -> S] : k \in 0..n}

\* The favorites lists the service can hold for an account
FavLists(a) == SeqsUpTo(Library(a), MaxFav)

Range(s) == {s[i] : i \in 1..Len(s)}

-----------------------------------------------------------------------------
(* state_store.py: the store file and the in-memory record *)

EmptyData == [a \in Accounts |-> <<>>]

\* A file is absent, holds a complete JSON document, or holds a cut-off one.
AbsentFile == [st |-> "absent", data |-> EmptyData]

PartialFile == [st |-> "partial", data |-> EmptyData]

\* json.dump({"by_user": data}) written in full
JsonFile(data) == [st |-> "ok", data |-> data]

\* StateStore._load: no file -> keep {}; unparsable -> {}; else by_user, every
\* id passed through str() (the ids of this model are strings already).
Load(file) == IF file.st = "ok" THEN file.data ELSE EmptyData

\* StateStore.get_seen
get_seen(data, immich_email) == Range(data[immich_email])

\* a plausible slip: the list is replaced instead of appended to
AddSeenReplaces(data, immich_email, asset_id) ==
    [data EXCEPT ![immich_email] = <<asset_id>>]

\* a plausible slip: the id is appended without the membership test
AddSeenAppends(data, immich_email, asset_id) ==
    [data EXCEPT ![immich_email] = Append(@, asset_id)]

\* StateStore.add_seen, the in-memory part
AddSeenData(data, immich_email, asset_id) ==
    IF asset_id \in Range(data[immich_email])
    THEN data
    ELSE [data EXCEPT ![immich_email] = Append(@, asset_id)]

\* a plausible slip: only the account being updated is written out
PayloadOneAccount(data, immich_email) ==
    [a \in Accounts |-> IF a = immich_email THEN data[a] ELSE <<>>]

\* StateStore._save: payload = {"by_user": self._data}
Payload(data, immich_email) == data

-----------------------------------------------------------------------------
(* state_store.py: _load on whatever the store path holds *)

\* JSON scalars an array of the file can hold: strings and numbers
JStr(v) == [t |-> "str", s |-> v, n |-> 0]

JNum(v) == [t |-> "num", s |-> "", n |-> v]

\* str(x) of a JSON scalar
Str(x) == IF x.t = "str" THEN x.s ELSE ToString(x.n)

Scalars == {JStr("p1"), JStr("1"), JNum(1)}

\* the value of one key of "by_user": an array, a string, a number, or no key
JArray(items) == [type |-> "array", items |-> items, text |-> <<>>]

JString(chars) == [type |-> "string", items |-> <<>>, text |-> chars]

JNumber == [type |-> "number", items |-> <<>>, text |-> <<>>]

NoKey == [type |-> "nokey", items |-> <<>>, text |-> <<>>]

EntryValues(a) ==
    IF a = "alice"
    THEN {JArray(q) : q \in SeqsUpTo(Scalars, MaxItems)}
             \cup {JString(<<"p", "1">>), JNumber, NoKey}
    ELSE {JArray(<<JStr("p1")>>), NoKey}

NoEntries == [a \in Accounts |-> NoKey]

\* What the store path can hold: nothing; something stat() is denied on;
\* something that cannot be opened or read; bytes that are not JSON; a JSON
\* value that is not an object; an object without "by_user"; an object whose
\* "by_user" is not an object; an object whose "by_user" maps accounts
RawKinds == {"absent", "noaccess", "ioerror", "badjson", "notobject", "nobyuser",
             "byusernotmap"}

RawFiles ==
    [kind : RawKinds, entries : {NoEntries}]
        \cup [kind : {"map"}, entries : {e \in [Accounts -> UNION {EntryValues(a) : a \in Accounts}] :
                                            \A a \in Accounts : e[a] \in EntryValues(a)}]

\* list(map(str, ids)): an array gives str() of its items, a string its
\* characters; a number is not iterable
Listed(v) ==
    CASE v.type = "array" -> [i \in 1..Len(v.items) |-> Str(v.items[i])]
      [] v.type = "string" -> v.text
      [] OTHER -> <<>>

LoadEmpty == [raised |-> FALSE, data |-> EmptyData]

\* StateStore._load.  Path.exists() is outside the try statement: when stat()
\* is denied it raises PermissionError or returns False, depending on the
\* Python version (stat_raises).
LoadFile(raw, stat_raises) ==
    CASE raw.kind = "absent" -> LoadEmpty
      [] raw.kind = "noaccess" -> [raised |-> stat_raises, data |-> EmptyData]
      [] raw.kind \in {"ioerror", "badjson"} -> LoadEmpty    \* except: _data = {}
      [] raw.kind = "notobject" -> LoadEmpty                 \* isinstance fails
      [] raw.kind = "nobyuser" -> LoadEmpty                  \* raw.get default {}
      [] raw.kind = "byusernotmap" -> LoadEmpty              \* no .items(): except
      [] OTHER ->
           IF \E a \in Accounts : raw.entries[a].type = "number"
           THEN LoadEmpty                                    \* TypeError: except
           ELSE [raised |-> FALSE,
                 data |-> [a \in Accounts |-> Listed(raw.entries[a])]]

-----------------------------------------------------------------------------
(* immich_client.py: get_favorites *)

NoCeiling == -1

RaisingFaults == {"http", "nonjson", "noassets"}

FaultKinds == RaisingFaults \cup {"noitems"}

NoFault == [page |-> 0, kind |-> "none"]

Min(a, b) == IF a < b THEN a ELSE b

\* The page a well-behaved server returns for {"size": page_size, "page": page}
ServerPage(srv, page_size, page) ==
    SubSeq(srv, (page - 1) * page_size + 1, Min(page * page_size, Len(srv)))

\* a plausible slip: a full page is taken for the last one
ShortPageOrFull(items, page_size) == Len(items) <= page_size

\* "if len(items) < page_size: break"
ShortPage(items, page_size) == Len(items) < page_size

\* a plausible slip: the error is swallowed and the pages so far are returned
RaisedSwallowed(all_items, page) ==
    [raised |-> FALSE, items |-> all_items, requests |-> page]

\* raise_for_status() / RuntimeError: the call ends without a list
Raised(all_items, page) == [raised |-> TRUE, items |-> <<>>, requests |-> page]

Returned(all_items, page) == [raised |-> FALSE, items |-> all_items, requests |-> page]

\* a plausible slip: the ceiling is never tested
RECURSIVE FavLoopNoCeiling(_, _, _, _, _, _)
FavLoopNoCeiling(srv, page_size, max_pages, fault, page, all_items) ==
    IF fault.page = page /\ fault.kind \in RaisingFaults
    THEN Raised(all_items, page)
    ELSE LET items == IF fault.page = page
                      THEN <<>>
                      ELSE ServerPage(srv, page_size, page)
         IN  IF items = <<>>
             THEN Returned(all_items, page)
             ELSE IF ShortPage(items, page_size)
             THEN Returned(all_items \o items, page)
             ELSE FavLoopNoCeiling(srv, page_size, max_pages, fault, page + 1,
                                   all_items \o items)

\* The "while True" loop of get_favorites, entered with `page` and `all_items`.
\* One request is issued per iteration, so `page` requests were issued when the
\* loop ends in iteration `page`.
RECURSIVE FavLoop(_, _, _, _, _, _)
FavLoop(srv, page_size, max_pages, fault, page, all_items) ==
    IF fault.page = page /\ fault.kind \in RaisingFaults
    THEN Raised(all_items, page)
    ELSE LET items == IF fault.page = page
                      THEN <<>>       \* "assets" without "items": items = []
                      ELSE ServerPage(srv, page_size, page)
         IN  IF items = <<>>
             THEN Returned(all_items, page)
             ELSE IF ShortPage(items, page_size)
             THEN Returned(all_items \o items, page)
             ELSE IF max_pages # NoCeiling /\ page + 1 > max_pages
             THEN Returned(all_items \o items, page)
             ELSE FavLoop(srv, page_size, max_pages, fault, page + 1, all_items \o items)

GetFavorites(srv, page_size, max_pages, fault) ==
    FavLoop(srv, page_size, max_pages, fault, 1, <<>>)

-----------------------------------------------------------------------------
(* pixstar_mailer.py: what send_photo does with an attachment *)

\* mimetypes.guess_type(filename)[0] or "image/jpeg", main type only
MainType(ext) ==
    CASE ext = "jpg" -> "image"
      [] ext = "mp4" -> "video"
      [] ext = "pdf" -> "application"
      [] OTHER -> "image"

\* originalFileName or deviceAssetId or f"{asset_id}.jpg": the extension
FileExt(asset) == IF asset.ext = "" THEN "jpg" ELSE asset.ext

\* a plausible slip: the cap itself is refused
TransformExclusive(ext, size) ==
    CASE MainType(ext) = "image" -> "image"
      [] MainType(ext) = "video" -> IF size >= MAX_VIDEO_BYTES THEN "skip" ELSE "video"
      [] OTHER -> "skip"

\* send_photo up to the SMTP session: "image", "video" or "skip" (return early)
Transform(ext, size) ==
    CASE MainType(ext) = "image" -> "image"
      [] MainType(ext) = "video" -> IF size > MAX_VIDEO_BYTES THEN "skip" ELSE "video"
      [] OTHER -> "skip"

\* what a send_photo call did: whether it raised, whether it handed a message
\* to the SMTP session, whether the session accepted it, and the attachment:
\* its length and whether it is the content as given
NothingSent == [raised |-> FALSE, attempted |-> FALSE, transmitted |-> FALSE,
                bytes |-> 0, as_given |-> FALSE]

\* send_photo: no recipient -> return; skip -> return; an image is re-encoded
\* (its length is not the content's), a video is attached as it is; the SMTP
\* session accepts the message or raises
SendPhoto(to_list, ext, size, jpeg_size, smtp_ok) ==
    IF to_list = <<>> \/ Transform(ext, size) = "skip"
    THEN NothingSent
    ELSE [raised |-> ~smtp_ok, attempted |-> TRUE, transmitted |-> smtp_ok,
          bytes |-> IF Transform(ext, size) = "video" THEN size ELSE jpeg_size,
          as_given |-> Transform(ext, size) = "video"]

PIXSTAR_MAX_WIDTH == 1024

PIXSTAR_MAX_HEIGHT == 768

Abs(n) == IF n < 0 THEN -n ELSE n

Max(a, b) == IF a > b THEN a ELSE b

\* a plausible slip: only the width is tested
NeedsResizeWidthOnly(width, height) == width > PIXSTAR_MAX_WIDTH

\* "if width > PIXSTAR_MAX_WIDTH or height > PIXSTAR_MAX_HEIGHT"
NeedsResize(width, height) ==
    width > PIXSTAR_MAX_WIDTH \/ height > PIXSTAR_MAX_HEIGHT

\* im.thumbnail((x, y), LANCZOS) on an image of width by height, as Pillow
\* (9.1 and later, which Image.Resampling requires) computes the new size:
\* nothing when the box holds the image; otherwise the side the box limits is
\* the box's and the other is floor or ceiling of the exact value, whichever
\* keeps the aspect ratio closer (floor on a tie), and 1 at least.  The
\* comparison is exact here; Pillow makes it in floating point.
Thumbnail(width, height, x, y) ==
    IF x >= width /\ y >= height
    THEN <<width, height>>
    ELSE IF x * height >= width * y
    THEN LET f == (y * width) \div height
             c == IF (y * width) % height = 0 THEN f ELSE f + 1
             n == IF Abs(y * width - f * height) <= Abs(y * width - c * height)
                  THEN f ELSE c
         IN  <<Max(n, 1), y>>
    ELSE LET f == (x * height) \div width
             c == IF (x * height) % width = 0 THEN f ELSE f + 1
             n == IF f = 0 \/ Abs(width * f - x * height) * c
                                <= Abs(width * c - x * height) * f
                  THEN f ELSE c
         IN  <<x, Max(n, 1)>>

\* downscale_for_pixstar: the size of the JPEG it returns
DownscaleSize(width, height) ==
    IF NeedsResize(width, height)
    THEN Thumbnail(width, height, PIXSTAR_MAX_WIDTH, PIXSTAR_MAX_HEIGHT)
    ELSE <<width, height>>

-----------------------------------------------------------------------------
(* main.py: values of the engine *)

NoCtx == [active |-> FALSE, pre |-> AbsentFile, post |-> AbsentFile]

NoAdd == [made |-> FALSE, acct |-> NoUser, id |-> NoId, flushed |-> FALSE]

\* Faults the photo service can answer one page request with
Faults == {NoFault} \cup [page : 1..(MaxFav \div PageSize + 1), kind : FaultKinds]

\* history: the page on which the fetch is failed, 0 when the fault is none, is
\* no failure, or falls on a page the fetch never asks for
FaultReached(srv, page_size, fault) ==
    IF fault.kind \in RaisingFaults /\ fault.page <= Len(srv) \div page_size + 1
    THEN fault.page
    ELSE 0

\* a plausible slip: an unknown --user falls back to every account
TargetAccountsOrAll(a) ==
    IF a.user # NoUser /\ a.user \in Accounts
    THEN SelectSeq(AccountList, LAMBDA acc : acc = a.user)
    ELSE IF a.all_users \/ a.user # NoUser THEN AccountList ELSE <<>>

\* main(): target_accounts of one-shot mode; <<>> stands for "error, return"
TargetAccounts(a) ==
    IF a.user # NoUser
    THEN SelectSeq(AccountList, LAMBDA acc : acc = a.user)
    ELSE IF a.all_users THEN AccountList ELSE <<>>

\* a plausible slip: the seen-set is not consulted
CandidatesAll(favs, seen) == favs

\* "[a for a in favorites if a.get("id") not in seen_ids]"
Candidates(favs, seen) == SelectSeq(favs, LAMBDA a : a.id \notin seen)

CurAsset == assets_to_send[idx]

IdsOf(S, a) == {p[2] : p \in {q \in S : q[1] = a}}

PairsOf(data) == UNION {{<<a, x>> : x \in Range(data[a])} : a \in Accounts}

Entry(id, res) == [id |-> id, res |-> res]

LogIds(log, results) == {log[i].id : i \in {j \in 1..Len(log) : log[j].res \in results}}

\* history: ids of account a that failed while unseen and were not sent since
UpdFailed(pf, a, log, seenStart) ==
    [pf EXCEPT ![a] = (@ \cup (LogIds(log, {"dlfail", "sendfail"}) \ seenStart))
                          \ LogIds(log, {"transmitted", "skipped"})]

ResetRun ==
    /\ pos' = 1
    /\ idx' = 1
    /\ sent' = "none"
    /\ run' = "idle"
    /\ runLog' = <<>>
    /\ email' = NoUser
    /\ favorites' = <<>>
    /\ seen_ids' = {}
    /\ assets_to_send' = <<>>
    /\ fetchOk' = FALSE
    /\ faultHit' = 0
    /\ memAtStart' = EmptyData

\* The process ends here (uncaught exception, kill, interrupt, return of main)
Stop(p) ==
    /\ pc' = p
    /\ prevFailed' = [a \in Accounts |-> {}]
    /\ ResetRun
    /\ force' = FALSE
    /\ targets' = <<>>
    /\ lastAdd' = NoAdd
    /\ UNCHANGED <<args, storeVars, recorded, known, saveCtx, aloneVars>>

\* main() returns: the error exits of one-shot mode ("rejected") and its end
\* after the last target account ("exited"); the mode and the position in the
\* account list are as main() left them
ReturnFromMain(p) ==
    /\ pc' = p
    /\ prevFailed' = [a \in Accounts |-> {}]
    /\ idx' = 1
    /\ sent' = "none"
    /\ run' = "idle"
    /\ runLog' = <<>>
    /\ email' = NoUser
    /\ favorites' = <<>>
    /\ seen_ids' = {}
    /\ assets_to_send' = <<>>
    /\ fetchOk' = FALSE
    /\ faultHit' = 0
    /\ memAtStart' = EmptyData
    /\ lastAdd' = NoAdd
    /\ UNCHANGED <<pos, modeVars, storeVars, recorded, known, saveCtx, aloneVars>>

\* sync_account_once returns to main()
ReturnFromSync(log) ==
    /\ pc' = "acct"
    /\ pos' = pos + 1
    /\ run' = "returned"
    /\ runLog' = log
    /\ prevFailed' = UpdFailed(prevFailed, email, log, get_seen(memAtStart, email))

\* "continue" / end of the loop body: on to the next candidate
NextCandidate(log) ==
    /\ pc' = "loop"
    /\ idx' = idx + 1
    /\ runLog' = log
    /\ UNCHANGED <<pos, run, prevFailed>>

-----------------------------------------------------------------------------
(* main.py: main() *)

Threads == 1..MaxThreads

NoThread == 0

NoCall == [acct |-> NoUser, id |-> NoId]

NoRaw == [kind |-> "absent", entries |-> NoEntries]

NoCtor == [done |-> FALSE, raised |-> FALSE]

NoLast == [made |-> FALSE, acct |-> NoUser, id |-> NoId, before |-> EmptyData]

NoAdds == 0

NoMail == [to_list |-> <<>>, ext |-> "", size |-> 0, jpeg_size |-> 0, smtp_ok |-> FALSE]

NoMailOut == [done |-> FALSE, r |-> NothingSent]

NoImage == <<1, 1>>

NoImageOut == [done |-> FALSE, size |-> <<1, 1>>]

NoInput == [srv |-> <<>>, page_size |-> 1, max_pages |-> NoCeiling, fault |-> NoFault]

NoOutput == [done |-> FALSE, r |-> Returned(<<>>, 0)]

EngineInit ==
    /\ pc = "main"
    /\ args = NoArgs
    /\ force = FALSE
    /\ targets = <<>>
    /\ pos = 1
    /\ mem = EmptyData
    /\ disk = AbsentFile
    /\ tmp = AbsentFile
    /\ email = NoUser
    /\ favorites = <<>>
    /\ seen_ids = {}
    /\ assets_to_send = <<>>
    /\ idx = 1
    /\ sent = "none"
    /\ run = "idle"
    /\ fetchOk = FALSE
    /\ faultHit = 0
    /\ runLog = <<>>
    /\ memAtStart = EmptyData
    /\ recorded = {}
    /\ known = {}
    /\ saveCtx = NoCtx
    /\ lastAdd = NoAdd
    /\ prevFailed = [a \in Accounts |-> {}]

FetchIdle ==
    /\ fIn = NoInput
    /\ fOut = NoOutput

\* no thread other than the one running main() exists
LockIdle ==
    /\ tpc = [t \in Threads |-> "idle"]
    /\ tcall = [t \in Threads |-> NoCall]
    /\ lock = NoThread
    /\ writers = {}
    /\ flushOk = FALSE

\* no StateStore other than the one of main() is constructed
CtorIdle ==
    /\ sIn = NoRaw
    /\ sOut = NoCtor
    /\ sLast = NoLast
    /\ sAdds = NoAdds

\* the mailer is not called on its own
MailIdle ==
    /\ gIn = NoMail
    /\ gOut = NoMailOut
    /\ dIn = NoImage
    /\ dOut = NoImageOut

Init ==
    /\ EngineInit
    /\ FetchIdle
    /\ LockIdle
    /\ CtorIdle
    /\ MailIdle

\* args = parse_args(); settings = load_settings()
ParseArgs ==
    /\ pc = "main"
    /\ args' \in Args
    /\ pc' = "resolve"
    /\ UNCHANGED <<pos, idx, sent, run, runLog, prevFailed, force, targets,
                   storeVars, histVars, runFrame, aloneVars>>

\* resolve_user_ids: get_user_by_email raises on any transport or decoding
\* failure, and nothing in resolve_user_ids or main() catches it.
ResolveUserIds ==
    /\ pc = "resolve"
    /\ \E outcome \in {"resolved", "raised"} :
         IF outcome = "raised"
         THEN Stop("died")
         ELSE /\ pc' = "store"
              /\ UNCHANGED <<pos, idx, sent, run, runLog, prevFailed, modeVars,
                             storeVars, histVars, runFrame, aloneVars>>

\* StateStore(settings.state_path): __init__ calls _load
StoreInit ==
    /\ pc = "store"
    /\ mem' = Load(disk)
    /\ known' = PairsOf(Load(disk))
    /\ pc' = "select"
    /\ UNCHANGED <<pos, idx, sent, run, runLog, prevFailed, modeVars, disk, tmp,
                   recorded, saveCtx, lastAdd, runFrame, aloneVars>>

\* main(): one-shot resend mode or normal loop mode
SelectMode ==
    /\ pc = "select"
    /\ IF args.resend_all /\ TargetAccounts(args) = <<>>
       THEN ReturnFromMain("rejected")
       ELSE /\ force' = args.resend_all
            /\ targets' = IF args.resend_all THEN TargetAccounts(args) ELSE AccountList
            /\ pc' = "acct"
            /\ saveCtx' = NoCtx
            /\ UNCHANGED <<pos, idx, sent, run, runLog, prevFailed, args,
                           storeVars, recorded, known, lastAdd, runFrame, aloneVars>>

\* "for account in ...": the next account enters sync_account_once
StartSync ==
    /\ pc = "acct"
    /\ pos <= Len(targets)
    /\ pc' = "fetch"
    /\ email' = targets[pos]
    /\ run' = "running"
    /\ idx' = 1
    /\ sent' = "none"
    /\ runLog' = <<>>
    /\ favorites' = <<>>
    /\ seen_ids' = {}
    /\ assets_to_send' = <<>>
    /\ fetchOk' = FALSE
    /\ faultHit' = 0
    /\ memAtStart' = mem
    /\ lastAdd' = NoAdd
    /\ UNCHANGED <<pos, prevFailed, modeVars, storeVars, recorded, known, saveCtx,
                   aloneVars>>

\* the accounts are exhausted: one-shot mode returns, loop mode goes to sleep
EndOfAccounts ==
    /\ pc = "acct"
    /\ pos > Len(targets)
    /\ IF force
       THEN ReturnFromMain("exited")
       ELSE /\ pc' = "sleep"
            /\ ResetRun
            /\ lastAdd' = NoAdd
            /\ UNCHANGED <<prevFailed, modeVars, storeVars, recorded, known, saveCtx,
                           aloneVars>>

\* time.sleep(poll), then the next cycle
Sleep ==
    /\ pc = "sleep"
    /\ pc' = "acct"
    /\ UNCHANGED <<pos, idx, sent, run, runLog, prevFailed, modeVars,
                   storeVars, histVars, runFrame, aloneVars>>

-----------------------------------------------------------------------------
(* main.py: sync_account_once *)

\* "favorites = client.get_favorites()" inside try/except: on an exception the
\* function logs and returns.
FetchFavorites ==
    /\ pc = "fetch"
    /\ \E srv \in FavLists(email), fault \in Faults :
         LET r == GetFavorites(srv, PageSize, NoCeiling, fault)
         IN  /\ faultHit' = FaultReached(srv, PageSize, fault)
             /\ IF r.raised
                THEN /\ ReturnFromSync(runLog)
                     /\ UNCHANGED <<favorites, fetchOk>>
                ELSE /\ favorites' = r.items
                     /\ fetchOk' = TRUE
                     /\ pc' = "diff"
                     /\ UNCHANGED <<pos, run, runLog, prevFailed>>
    /\ UNCHANGED <<idx, sent, modeVars, storeVars, histVars, email, seen_ids,
                   assets_to_send, memAtStart, aloneVars>>

\* Lines 119-128: the candidate list.  In normal mode a.get("id") is evaluated
\* on every item, so an item that is not an object raises out of the function.
Diff ==
    /\ pc = "diff"
    /\ IF ~force /\ \E i \in 1..Len(favorites) : ~favorites[i].dict
       THEN Stop("died")
       ELSE LET seen == IF force THEN {} ELSE get_seen(mem, email)
                cand == IF force THEN favorites ELSE Candidates(favorites, seen)
            IN  /\ seen_ids' = seen
                /\ assets_to_send' = cand
                /\ IF cand = <<>>
                   THEN ReturnFromSync(runLog)
                   ELSE /\ pc' = "loop"
                        /\ UNCHANGED <<pos, run, runLog, prevFailed>>
                /\ UNCHANGED <<idx, sent, modeVars, storeVars, histVars, email,
                               favorites, fetchOk, faultHit, memAtStart, aloneVars>>

\* "for asset in assets_to_send: asset_id = asset.get("id"); if not asset_id: continue"
LoopHead ==
    /\ pc = "loop"
    /\ IF idx > Len(assets_to_send)
       THEN /\ ReturnFromSync(runLog)
            /\ UNCHANGED <<idx, sent, modeVars, storeVars, histVars, runFrame, aloneVars>>
       ELSE IF ~CurAsset.dict
       THEN Stop("died")
       ELSE /\ IF CurAsset.id = NoId
               THEN NextCandidate(Append(runLog, Entry(NoId, "noid")))
               ELSE /\ pc' = "download"
                    /\ UNCHANGED <<idx, runLog, pos, run, prevFailed>>
            /\ UNCHANGED <<sent, modeVars, storeVars, histVars, runFrame, aloneVars>>

\* "content = client.download_asset(asset_id)" succeeds
DownloadOk ==
    /\ pc = "download"
    /\ pc' = "send"
    /\ UNCHANGED <<idx, runLog, pos, run, prevFailed, sent, modeVars, storeVars,
                   histVars, runFrame, aloneVars>>

\* a plausible slip: a failed download ends the whole run
DownloadFailedAborts ==
    /\ pc = "download"
    /\ ReturnFromSync(Append(runLog, Entry(CurAsset.id, "dlfail")))
    /\ UNCHANGED <<idx, sent, modeVars, storeVars, histVars, runFrame, aloneVars>>

\* download_asset raises: logged, "continue"
DownloadFailed ==
    /\ pc = "download"
    /\ NextCandidate(Append(runLog, Entry(CurAsset.id, "dlfail")))
    /\ UNCHANGED <<sent, modeVars, storeVars, histVars, runFrame, aloneVars>>

\* send_photo returns early: unsupported type, or a video over the cap.  No
\* exception is raised, so the caller goes on to add_seen.
SendSkipped ==
    /\ pc = "send"
    /\ Transform(FileExt(CurAsset), CurAsset.size) = "skip"
    /\ sent' = "skipped"
    /\ runLog' = Append(runLog, Entry(CurAsset.id, "skipped"))
    /\ pc' = "add_seen"
    /\ UNCHANGED <<idx, pos, run, prevFailed, modeVars, storeVars, histVars,
                   runFrame, aloneVars>>

\* a plausible slip: the asset is not recorded after the message went out
SendTransmittedNoRecord ==
    /\ pc = "send"
    /\ Transform(FileExt(CurAsset), CurAsset.size) # "skip"
    /\ sent' = "transmitted"
    /\ NextCandidate(Append(runLog, Entry(CurAsset.id, "transmitted")))
    /\ UNCHANGED <<modeVars, storeVars, histVars, runFrame, aloneVars>>

\* send_photo builds the message and the SMTP session accepts it
SendTransmitted ==
    /\ pc = "send"
    /\ Transform(FileExt(CurAsset), CurAsset.size) # "skip"
    /\ sent' = "transmitted"
    /\ runLog' = Append(runLog, Entry(CurAsset.id, "transmitted"))
    /\ pc' = "add_seen"
    /\ UNCHANGED <<idx, pos, run, prevFailed, modeVars, storeVars, histVars,
                   runFrame, aloneVars>>

\* a plausible slip: add_seen sits after the try block and runs on failure too
SendFailedStillRecords ==
    /\ pc = "send"
    /\ Transform(FileExt(CurAsset), CurAsset.size) # "skip"
    /\ sent' = "failed"
    /\ runLog' = Append(runLog, Entry(CurAsset.id, "sendfail"))
    /\ pc' = "add_seen"
    /\ UNCHANGED <<idx, pos, run, prevFailed, modeVars, storeVars, histVars,
                   runFrame, aloneVars>>

\* send_photo raises (undecodable image, SMTP connect/login/relay error):
\* logged, the loop goes on
SendFailed ==
    /\ pc = "send"
    /\ Transform(FileExt(CurAsset), CurAsset.size) # "skip"
    /\ sent' = "failed"
    /\ NextCandidate(Append(runLog, Entry(CurAsset.id, "sendfail")))
    /\ UNCHANGED <<modeVars, storeVars, histVars, runFrame, aloneVars>>

-----------------------------------------------------------------------------
(* state_store.py: add_seen and _save, step by step *)

\* add_seen returns to the loop body, which ends
AddSeenReturns(flushed) ==
    /\ NextCandidate(runLog)
    /\ recorded' = recorded \cup {<<email, CurAsset.id>>}
    /\ known' = known \cup {<<email, CurAsset.id>>}
    /\ lastAdd' = [made |-> TRUE, acct |-> email, id |-> CurAsset.id,
                   flushed |-> flushed]
    /\ saveCtx' = NoCtx

\* add_seen: the in-memory update, then _save is entered
AddSeen ==
    /\ pc = "add_seen"
    /\ mem' = AddSeenData(mem, email, CurAsset.id)
    /\ saveCtx' = [active |-> TRUE, pre |-> disk,
                   post |-> JsonFile(Payload(mem', email))]
    /\ lastAdd' = NoAdd
    /\ pc' = "save_open"
    /\ UNCHANGED <<idx, runLog, pos, run, prevFailed, sent, modeVars, disk, tmp,
                   recorded, known, runFrame, aloneVars>>

\* a plausible slip: the store file itself is opened for writing
SaveOpenInPlace ==
    /\ pc = "save_open"
    /\ disk' = PartialFile
    /\ pc' = "save_write"
    /\ UNCHANGED <<idx, runLog, pos, run, prevFailed, sent, modeVars, mem, tmp,
                   histVars, runFrame, aloneVars>>

\* tmp_path.open("w"): the temporary file is created or truncated; on an
\* OSError _save prints and returns
SaveOpen ==
    /\ pc = "save_open"
    /\ \E ok \in BOOLEAN :
         IF ok
         THEN /\ tmp' = PartialFile
              /\ pc' = "save_write"
              /\ UNCHANGED <<idx, runLog, pos, run, prevFailed, histVars>>
         ELSE /\ AddSeenReturns(FALSE)
              /\ UNCHANGED tmp
    /\ UNCHANGED <<sent, modeVars, mem, disk, runFrame, aloneVars>>

\* a plausible slip: a failed write undoes the in-memory addition
SaveWriteRollsBack ==
    /\ pc = "save_write"
    /\ \E ok \in BOOLEAN :
         IF ok
         THEN /\ tmp' = JsonFile(Payload(mem, email))
              /\ pc' = "save_replace"
              /\ UNCHANGED <<idx, runLog, pos, run, prevFailed, histVars, mem>>
         ELSE /\ AddSeenReturns(FALSE)
              /\ mem' = [mem EXCEPT ![email] = SelectSeq(@, LAMBDA x : x # CurAsset.id)]
              /\ UNCHANGED tmp
    /\ UNCHANGED <<sent, modeVars, disk, runFrame, aloneVars>>

\* json.dump(payload, f): the document is written in full, or the write fails
\* part-way and _save prints and returns
SaveWrite ==
    /\ pc = "save_write"
    /\ \E ok \in BOOLEAN :
         IF ok
         THEN /\ tmp' = JsonFile(Payload(mem, email))
              /\ pc' = "save_replace"
              /\ UNCHANGED <<idx, runLog, pos, run, prevFailed, histVars>>
         ELSE /\ AddSeenReturns(FALSE)
              /\ UNCHANGED tmp
    /\ UNCHANGED <<sent, modeVars, mem, disk, runFrame, aloneVars>>

\* tmp_path.replace(self._path): an atomic rename, or an OSError
SaveReplace ==
    /\ pc = "save_replace"
    /\ \E ok \in BOOLEAN :
         IF ok
         THEN /\ disk' = tmp
              /\ tmp' = AbsentFile
              /\ AddSeenReturns(TRUE)
         ELSE /\ AddSeenReturns(FALSE)
              /\ UNCHANGED <<disk, tmp>>
    /\ UNCHANGED <<sent, modeVars, mem, runFrame, aloneVars>>

-----------------------------------------------------------------------------
(* The environment of the process *)

RunningPcs == {"main", "resolve", "store", "select", "acct", "sleep", "fetch", "diff", "loop",
               "download", "send", "add_seen", "save_open", "save_write",
               "save_replace"}

\* inside "try: while True: ..." of loop mode
LoopPcs == RunningPcs \ {"main", "resolve", "store", "select"}

\* the process is terminated from outside, at any point
Kill ==
    /\ pc \in RunningPcs
    /\ Stop("killed")

\* KeyboardInterrupt in loop mode: "except KeyboardInterrupt" ends main()
Interrupt ==
    /\ pc \in LoopPcs
    /\ ~args.resend_all
    /\ Stop("stopped")

\* the program is started again: a fresh process, nothing in memory
Restart ==
    /\ pc \in {"killed", "died", "stopped", "exited", "rejected"}
    /\ pc' = "main"
    /\ mem' = EmptyData
    /\ known' = {}
    /\ pos' = 1
    /\ force' = FALSE
    /\ targets' = <<>>
    /\ UNCHANGED <<idx, sent, run, runLog, prevFailed, args,
                   disk, tmp, recorded, saveCtx, lastAdd, runFrame, aloneVars>>

Next ==
    \/ ParseArgs
    \/ ResolveUserIds
    \/ StoreInit
    \/ SelectMode
    \/ StartSync
    \/ EndOfAccounts
    \/ Sleep
    \/ FetchFavorites
    \/ Diff
    \/ LoopHead
    \/ DownloadOk
    \/ DownloadFailed
    \/ SendSkipped
    \/ SendTransmitted
    \/ SendFailed
    \/ AddSeen
    \/ SaveOpen
    \/ SaveWrite
    \/ SaveReplace
    \/ Kill
    \/ Interrupt
    \/ Restart

Spec == Init /\ [][Next]_vars

-----------------------------------------------------------------------------
(* get_favorites on its own: every server size, page size, ceiling and fault *)

ServerOf(n) == [i \in 1..n |-> i]

FetchInputs ==
    [srv : {ServerOf(n) : n \in 0..MaxN},
     page_size : 1..MaxP,
     max_pages : {NoCeiling} \cup 0..MaxCeil,
     fault : {NoFault} \cup [page : 1..(MaxCeil + 1), kind : FaultKinds]]

FetchInit ==
    /\ EngineInit
    /\ fIn \in FetchInputs
    /\ fOut = NoOutput
    /\ LockIdle
    /\ CtorIdle
    /\ MailIdle

CallGetFavorites ==
    /\ ~fOut.done
    /\ fIn # NoInput
    /\ fOut' = [done |-> TRUE,
                r |-> GetFavorites(fIn.srv, fIn.page_size, fIn.max_pages, fIn.fault)]
    /\ UNCHANGED <<engineVars, storeVars, fIn, lockVars, ctorVars, mailVars>>

FetchNext == CallGetFavorites

FetchSpec == FetchInit /\ [][FetchNext]_vars

-----------------------------------------------------------------------------
(* state_store.py: add_seen called from several threads on one StateStore *)

Calls == [acct : Accounts, id : {"p1", "v1"}]

LockInit ==
    /\ EngineInit
    /\ FetchIdle
    /\ tpc = [t \in Threads |-> "call"]
    /\ tcall \in [Threads -> Calls]
    /\ lock = NoThread
    /\ writers = {}
    /\ flushOk = FALSE
    /\ CtorIdle
    /\ MailIdle

\* a plausible slip: the critical section is entered without the lock
LockIgnored(l) == TRUE

\* threading.Lock: acquire succeeds only while no thread holds the lock
LockFree(l) == l = NoThread

\* "with self._lock:" the thread blocks until the lock is free, then holds it
ThreadAcquire(t) ==
    /\ tpc[t] = "call"
    /\ LockFree(lock)
    /\ lock' = t
    /\ tpc' = [tpc EXCEPT ![t] = "mutate"]
    /\ UNCHANGED <<engineVars, storeVars, fetchVars, ctorVars, mailVars, tcall, writers, flushOk>>

\* "ids = self._data.setdefault(...); if asset_id not in ids: ids.append(asset_id)"
ThreadMutate(t) ==
    /\ tpc[t] = "mutate"
    /\ mem' = AddSeenData(mem, tcall[t].acct, tcall[t].id)
    /\ tpc' = [tpc EXCEPT ![t] = "save_open"]
    /\ UNCHANGED <<engineVars, disk, tmp, fetchVars, ctorVars, mailVars, tcall, lock, writers, flushOk>>

\* _save ends, with or without an exception caught; add_seen is about to
\* leave the "with" block
ThreadSaveEnds(t, ok) ==
    /\ tpc' = [tpc EXCEPT ![t] = "release"]
    /\ writers' = writers \ {t}
    /\ flushOk' = ok

\* _save: tmp_path.open("w")
ThreadSaveOpen(t) ==
    /\ tpc[t] = "save_open"
    /\ \E ok \in BOOLEAN :
         IF ok
         THEN /\ tmp' = PartialFile
              /\ writers' = writers \cup {t}
              /\ tpc' = [tpc EXCEPT ![t] = "save_write"]
              /\ UNCHANGED flushOk
         ELSE /\ ThreadSaveEnds(t, FALSE)
              /\ UNCHANGED tmp
    /\ UNCHANGED <<engineVars, mem, disk, fetchVars, ctorVars, mailVars, tcall, lock>>

\* _save: json.dump(payload, f), then the file is closed
ThreadSaveWrite(t) ==
    /\ tpc[t] = "save_write"
    /\ \E ok \in BOOLEAN :
         IF ok
         THEN /\ tmp' = JsonFile(Payload(mem, tcall[t].acct))
              /\ writers' = writers \ {t}
              /\ tpc' = [tpc EXCEPT ![t] = "save_replace"]
              /\ UNCHANGED flushOk
         ELSE /\ ThreadSaveEnds(t, FALSE)
              /\ UNCHANGED tmp
    /\ UNCHANGED <<engineVars, mem, disk, fetchVars, ctorVars, mailVars, tcall, lock>>

\* _save: tmp_path.replace(self._path); it fails when the temporary file is
\* not there
ThreadSaveReplace(t) ==
    /\ tpc[t] = "save_replace"
    /\ \E ok \in BOOLEAN :
         IF ok /\ tmp.st # "absent"
         THEN /\ disk' = tmp
              /\ tmp' = AbsentFile
              /\ ThreadSaveEnds(t, TRUE)
         ELSE /\ ThreadSaveEnds(t, FALSE)
              /\ UNCHANGED <<disk, tmp>>
    /\ UNCHANGED <<engineVars, mem, fetchVars, ctorVars, mailVars, tcall, lock>>

\* the "with" block is left: the lock is released and add_seen returns
ThreadRelease(t) ==
    /\ tpc[t] = "release"
    /\ lock' = IF lock = t THEN NoThread ELSE lock
    /\ tpc' = [tpc EXCEPT ![t] = "done"]
    /\ UNCHANGED <<engineVars, storeVars, fetchVars, ctorVars, mailVars, tcall, writers, flushOk>>

LockNext ==
    \E t \in Threads :
        \/ ThreadAcquire(t)
        \/ ThreadMutate(t)
        \/ ThreadSaveOpen(t)
        \/ ThreadSaveWrite(t)
        \/ ThreadSaveReplace(t)
        \/ ThreadRelease(t)

LockSpec == LockInit /\ [][LockNext]_vars

-----------------------------------------------------------------------------
(* state_store.py: a StateStore constructed on any store file, then used *)

CtorInit ==
    /\ EngineInit
    /\ FetchIdle
    /\ LockIdle
    /\ sIn \in RawFiles
    /\ sOut = NoCtor
    /\ sLast = NoLast
    /\ sAdds = NoAdds
    /\ MailIdle

\* StateStore(path): _data = {}, then _load()
Construct ==
    /\ ~sOut.done
    /\ \E stat_raises \in BOOLEAN :
         LET r == LoadFile(sIn, stat_raises)
         IN  /\ sOut' = [done |-> TRUE, raised |-> r.raised]
             /\ mem' = r.data
    /\ UNCHANGED <<engineVars, disk, tmp, fetchVars, lockVars, mailVars, sIn, sLast, sAdds>>

\* add_seen(immich_email, asset_id) on the constructed store
CallAddSeen ==
    /\ sOut.done /\ ~sOut.raised
    /\ sAdds < MaxAdds
    /\ \E a \in Accounts, x \in {"p1", "1"} :
         /\ mem' = AddSeenData(mem, a, x)
         /\ sLast' = [made |-> TRUE, acct |-> a, id |-> x, before |-> mem]
    /\ sAdds' = sAdds + 1
    /\ UNCHANGED <<engineVars, disk, tmp, fetchVars, lockVars, mailVars, sIn, sOut>>

CtorNext == Construct \/ CallAddSeen

CtorSpec == CtorInit /\ [][CtorNext]_vars

-----------------------------------------------------------------------------
(* pixstar_mailer.py: send_photo and downscale_for_pixstar on their own *)

\* Attachments just under, at and just over the video cap, of each kind, to
\* one or two frame addresses (config.py refuses an account without any)
MailInputs ==
    [to_list : {<<"frame1">>, <<"frame1", "frame2">>},
     ext : {"jpg", "mp4", "pdf"},
     size : (MAX_VIDEO_BYTES - GateSpan)..(MAX_VIDEO_BYTES + GateSpan),
     jpeg_size : {4096},
     smtp_ok : BOOLEAN]

GateInit ==
    /\ EngineInit
    /\ FetchIdle
    /\ LockIdle
    /\ CtorIdle
    /\ gIn \in MailInputs
    /\ gOut = NoMailOut
    /\ dIn = NoImage
    /\ dOut = NoImageOut

CallSendPhoto ==
    /\ ~gOut.done
    /\ gIn # NoMail
    /\ gOut' = [done |-> TRUE,
                r |-> SendPhoto(gIn.to_list, gIn.ext, gIn.size, gIn.jpeg_size,
                                gIn.smtp_ok)]
    /\ UNCHANGED <<engineVars, storeVars, fetchVars, lockVars, ctorVars, gIn, dIn, dOut>>

GateNext == CallSendPhoto

GateSpec == GateInit /\ [][GateNext]_vars

\* sides around 1, around the maximum and around twice the maximum, and wide
SidesAround(max) ==
    (1..DimSpan) \cup ((max - DimSpan)..(max + DimSpan))
        \cup ((2 * max - DimSpan)..(2 * max + DimSpan))
        \cup ((8 * max)..(8 * max + DimSpan))

ScaleInit ==
    /\ EngineInit
    /\ FetchIdle
    /\ LockIdle
    /\ CtorIdle
    /\ gIn = NoMail
    /\ gOut = NoMailOut
    /\ dIn \in SidesAround(PIXSTAR_MAX_WIDTH) \X SidesAround(PIXSTAR_MAX_HEIGHT)
    /\ dOut = NoImageOut

CallDownscale ==
    /\ ~dOut.done
    /\ dOut' = [done |-> TRUE, size |-> DownscaleSize(dIn[1], dIn[2])]
    /\ UNCHANGED <<engineVars, storeVars, fetchVars, lockVars, ctorVars, gIn, gOut, dIn>>

ScaleNext == CallDownscale

ScaleSpec == ScaleInit /\ [][ScaleNext]_vars

-----------------------------------------------------------------------------
(* Properties *)

CurId == CurAsset.id

Seen(a) == get_seen(mem, a)

SeenAtStart == get_seen(memAtStart, email)

\* ids for which this run has called add_seen (or is about to)
AddedThisRun == LogIds(runLog, {"transmitted", "skipped"})

Downloading == pc \in {"download", "send"}

InSave == pc \in {"add_seen", "save_open", "save_write", "save_replace"}

Finished == run = "returned" /\ fetchOk

CeilDiv(n, p) == (n + p - 1) \div p

\* C1, as stated: once add_seen(A, X) has completed -- in this process or in an
\* earlier one -- no later normal-mode run for A downloads or emails X.
C1_NoResendOnceRecorded ==
    (Downloading /\ ~force /\ CurId \notin AddedThisRun)
        => <<email, CurId>> \notin recorded

\* C1, amended: once add_seen(A, X) has completed in this process, or X was in
\* the store file this process loaded, no later normal-mode run of this process
\* for A downloads or emails X.
C1_NoResendOnceKnown ==
    (Downloading /\ ~force /\ CurId \notin AddedThisRun)
        => <<email, CurId>> \notin known

\* C1 witness: a normal-mode run whose fetched favorites hold an id that was
\* recorded before the run, and that got past the candidate selection.
C1_Witness ==
    /\ run = "running" /\ ~force /\ pc = "loop"
    /\ \E i \in 1..Len(favorites) :
         /\ favorites[i].id \in SeenAtStart
         /\ <<email, favorites[i].id>> \in known

\* C2: add_seen is entered only right after send_photo transmitted the asset;
\* an asset send_photo skipped (oversized video, unsupported type) is not
\* recorded.
C2_RecordedOnlyAfterTransmission == InSave => sent = "transmitted"

\* C3, as stated: when a forced run ends, the id of every asset of the
\* favorites list is in the account's seen-set.
C3_ForcedRunMarksAll ==
    (Finished /\ force)
        => \A i \in 1..Len(favorites) :
              favorites[i].id # NoId => favorites[i].id \in Seen(email)

\* C3, amended: when a forced run ends, the id of every asset of the fetched
\* favorites list whose download and transmission succeeded in the run is in
\* the account's seen-set, whatever the seen-set held before the run.
C3_ForcedRunMarksDelivered ==
    (Finished /\ force)
        => /\ Len(runLog) = Len(favorites)
           /\ \A i \in 1..Len(favorites) :
                 runLog[i].res = "transmitted" => favorites[i].id \in Seen(email)

\* C3 witness: a forced run ended having transmitted an asset that was not in
\* the seen-set before and one that was.
C3_Witness ==
    /\ Finished /\ force
    /\ \E i, j \in 1..Len(runLog) :
         /\ runLog[i].res = "transmitted" /\ runLog[i].id \notin SeenAtStart
         /\ runLog[j].res \in {"transmitted", "skipped"} /\ runLog[j].id \in SeenAtStart

\* C4: when a run ends, every candidate was processed, in order, whatever
\* failed before it; a transmitted candidate is in the seen-set, and a
\* candidate whose download or delivery failed was not added by the run.
C4_FailureIsolation ==
    Finished
        => /\ Len(runLog) = Len(assets_to_send)
           /\ \A i \in 1..Len(runLog) :
                 /\ runLog[i].id = assets_to_send[i].id
                 /\ runLog[i].res = "transmitted" => runLog[i].id \in Seen(email)
                 /\ (/\ runLog[i].res \in {"dlfail", "sendfail"}
                     /\ runLog[i].id \notin SeenAtStart
                     /\ runLog[i].id \notin AddedThisRun)
                        => runLog[i].id \notin Seen(email)

\* C4 witness: a run ended in which the first candidate failed its download
\* and the second was transmitted and recorded, the first staying unseen.
C4_Witness ==
    /\ Finished
    /\ Len(runLog) = 2
    /\ runLog[1].res = "dlfail" /\ runLog[1].id \notin Seen(email)
    /\ runLog[2].res = "transmitted" /\ runLog[2].id \in Seen(email)

\* C5: an asset that was unseen and failed (download or delivery) without being
\* sent stays out of the seen-set; in the account's next normal-mode runs it is
\* a candidate whenever it is in the fetched favorites; and once its download
\* and delivery succeed it is in the seen-set when that run ends.
C5_FailedIsRetried ==
    /\ \A a \in Accounts :
          (run # "running" \/ email # a) => prevFailed[a] \cap Seen(a) = {}
    /\ (run \in {"running", "returned"} /\ fetchOk /\ pc # "diff" /\ ~force)
          => \A i \in 1..Len(favorites) :
                favorites[i].id \in prevFailed[email]
                   => \E j \in 1..Len(assets_to_send) :
                         assets_to_send[j].id = favorites[i].id
    /\ Finished
          => \A i \in 1..Len(runLog) :
                runLog[i].res = "transmitted"
                   => runLog[i].id \in Seen(email) \ prevFailed[email]

\* C5 witness: a normal-mode run downloads an asset again that failed in an
\* earlier run of the account.
C5_Witness == pc = "download" /\ ~force /\ CurId \in prevFailed[email]

\* C6: the store file is never cut off; from the moment _save is entered,
\* through a termination at any step and up to the load of the next process,
\* it is the complete file from before the update or the complete new one (an
\* existing file never goes missing), and the next process loads one of the two.
C6_AtomicStoreFile ==
    /\ disk.st # "partial"
    /\ saveCtx.active
          => /\ disk \in {saveCtx.pre, saveCtx.post}
             /\ saveCtx.pre.st = "ok" => disk.st = "ok"
    /\ (saveCtx.active /\ pc = "select")
          => mem \in {Load(saveCtx.pre), Load(saveCtx.post)}

\* C6 witness: the process was terminated between the write of the temporary
\* file and the rename, and the next process loaded the complete old file.
C6_Witness ==
    /\ pc = "select" /\ saveCtx.active
    /\ saveCtx.pre.st = "ok" /\ saveCtx.pre # saveCtx.post
    /\ tmp = saveCtx.post
    /\ disk = saveCtx.pre /\ mem = Load(saveCtx.pre)

FreshStoreCovers ==
    /\ lastAdd.id \in get_seen(Load(disk), lastAdd.acct)
    /\ \A p \in known : p[2] \in get_seen(Load(disk), p[1])

\* C7, as stated: after add_seen(A, X) returns, a StateStore built from the
\* store file reports X for A and every id recorded before.
C7_FreshLoadSeesAdd == lastAdd.made => FreshStoreCovers

\* C7, amended: the same, provided the flush inside add_seen did not fail.
C7_FreshLoadSeesFlushedAdd == (lastAdd.made /\ lastAdd.flushed) => FreshStoreCovers

\* C7 witness: add_seen returned after a successful flush while ids of both
\* accounts were on record.
C7_Witness ==
    /\ lastAdd.made /\ lastAdd.flushed
    /\ \E p \in known : p[1] # lastAdd.acct

FetchedPlain == fOut.done /\ fIn.fault = NoFault /\ fIn.max_pages = NoCeiling

\* C8, as stated: N items served in pages of P come back complete and in order
\* with exactly ceil(N/P) page requests.
C8_CeilRequests ==
    FetchedPlain
        => /\ ~fOut.r.raised
           /\ fOut.r.items = fIn.srv
           /\ fOut.r.requests = CeilDiv(Len(fIn.srv), fIn.page_size)

\* C8, amended: N items served in pages of P come back complete and in order
\* with exactly floor(N/P) + 1 page requests: ceil(N/P) when P does not divide
\* N, and one more (the empty page that ends the walk) when it does, N = 0
\* included.
C8_FloorPlusOneRequests ==
    FetchedPlain
        => /\ ~fOut.r.raised
           /\ fOut.r.items = fIn.srv
           /\ fOut.r.requests = Len(fIn.srv) \div fIn.page_size + 1

\* C8 witness: a fetch of N > 0 items with N a multiple of P.
C8_Witness ==
    /\ FetchedPlain
    /\ Len(fIn.srv) = 2 * fIn.page_size
    /\ Len(fOut.r.items) = Len(fIn.srv)

\* C9: when a page request of the fetch fails, get_favorites returns no list
\* and the run returns at once: nothing downloaded, nothing sent, the
\* seen-state as it was.
C9_FetchFailureSkipsAccount ==
    faultHit > 0
        => /\ run = "returned" /\ pc = "acct"
           /\ ~fetchOk /\ favorites = <<>> /\ assets_to_send = <<>>
           /\ runLog = <<>>
           /\ mem = memAtStart

\* C9 witness: the second page request failed after a first full page.
C9_Witness == faultHit = 2 /\ run = "returned"

\* C10: no error ends a loop-mode process.
C10_LoopNeverDies == ~(pc = "died" /\ ~args.resend_all)

\* the command line names, with --resend-all, a --user that is not configured
UnknownUser == args.resend_all /\ args.user \notin Accounts \cup {NoUser}

\* C11: in one-shot mode with --user naming an account that is not configured,
\* main() reports the error and returns; from the parsing of the command line
\* to the end of the process no run of sync_account_once starts for any
\* account (no fetch, no download, no delivery) and the seen-state -- the
\* store file and the loaded record -- never changes.
C11_UnknownUserRunsNothing ==
    [][(UnknownUser /\ pc # "main")
          => /\ pc' \in {"store", "select", "rejected", "killed", "died", "main"}
             /\ (pc = "select" /\ pc' # "killed") => pc' = "rejected"
             /\ run' = "idle" /\ targets' = <<>>
             /\ disk' = disk /\ tmp' = tmp /\ recorded' = recorded
             /\ (mem' # mem) => (pc = "store" \/ pc' = "main")]_vars

\* C11 witness: the process returned from the selection with the error, a
\* store file with recorded ids being in place.
C11_Witness ==
    /\ pc = "rejected" /\ UnknownUser
    /\ disk.st = "ok" /\ mem = Load(disk) /\ mem # EmptyData

\* C12: with --resend-all and without --user, the process ends after a forced
\* pass over every configured account, with or without --all-users.
C12_NoUserMeansAllAccounts ==
    (pc \in {"exited", "rejected"} /\ args.resend_all /\ args.user = NoUser)
        => /\ pc = "exited"
           /\ force /\ targets = AccountList /\ pos = Len(AccountList) + 1

\* C13: within a process the in-memory seen-set of every account only grows:
\* no step of a normal-mode or forced run, no failure and no add_seen removes
\* an id (the step that starts a new process is the one exception).
C13_SeenSetGrows ==
    [][pc' # "main" => \A a \in Accounts : Seen(a) \subseteq Seen(a)']_vars

\* C13 witness: a forced run has just recorded again an id that was seen
\* before the run, and the account's seen-set holds a second id too.
C13_Witness ==
    /\ force /\ lastAdd.made /\ lastAdd.id \in SeenAtStart
    /\ Cardinality(Seen(email)) >= 2

\* pairs this process holds in memory that the store file does not hold
Unflushed == {p \in known : p[2] \notin get_seen(Load(disk), p[1])}

\* C16: a failed flush inside add_seen is not fatal and rolls nothing back:
\* add_seen returns to the loop, which goes on with the next candidate; the id
\* stays in memory, as does every id the process loaded or added; a later
\* normal-mode run of the process does not send an id that is only in memory;
\* and the run ends having processed every candidate.
C16_FailedFlushKeepsRecord ==
    /\ (lastAdd.made /\ ~lastAdd.flushed)
          => /\ lastAdd.id \in Seen(lastAdd.acct)
             /\ pc \in {"loop", "download", "send", "add_seen", "acct"}
             /\ pc = "loop" => Len(runLog) = idx - 1
    /\ \A p \in known : p[2] \in Seen(p[1])
    /\ (Downloading /\ ~force /\ CurId \notin AddedThisRun)
          => <<email, CurId>> \notin Unflushed
    /\ Finished => Len(runLog) = Len(assets_to_send)

\* C16 witness: the flush of the first candidate failed, its id is in memory
\* and not in the store file, and the second candidate is being downloaded.
C16_Witness ==
    /\ lastAdd.made /\ ~lastAdd.flushed
    /\ <<lastAdd.acct, lastAdd.id>> \in Unflushed
    /\ pc = "download" /\ idx = 2

TransmittedIn(log, x) ==
    {i \in 1..Len(log) : log[i].id = x /\ log[i].res = "transmitted"}

\* C17: in normal mode, with every recorded id flushed to the store file, no
\* asset id is emailed more than once for the account, also when the favorites
\* list of the cycle holds the id more than once.
C17_EmailedAtMostOnce ==
    (run \in {"running", "returned"} /\ ~force /\ Unflushed = {})
        => \A i \in 1..Len(runLog) :
              Cardinality(TransmittedIn(runLog, runLog[i].id)) <= 1

\* threads whose add_seen has done its in-memory update
Mutated == {t \in Threads : tpc[t] \in {"save_open", "save_write", "save_replace",
                                        "release", "done"}}

AllDone == \A t \in Threads : tpc[t] = "done"

FileHoldsAllCalls ==
    \A t \in Threads : tcall[t].id \in get_seen(Load(disk), tcall[t].acct)

\* what the lock guarantees while the calls run
Serialized ==
    /\ \A t \in Mutated : tcall[t].id \in Seen(tcall[t].acct)
    /\ Cardinality(writers) <= 1
    /\ Cardinality(Threads \ {t \in Threads : tpc[t] \in {"call", "done"}}) <= 1
    /\ disk.st # "partial"

\* C14, as stated: concurrent add_seen calls are serialized over the update and
\* the flush; no id is lost from memory, the temporary file has one writer at
\* most, and when all calls have finished the store file holds every added id.
C14_SerializedAndAllOnFile == Serialized /\ (AllDone => FileHoldsAllCalls)

\* C14, amended: the same, the store file holding every added id when all
\* calls have finished provided the flush of the last call to finish succeeded.
C14_SerializedAndFlushedOnFile ==
    Serialized /\ ((AllDone /\ flushOk) => FileHoldsAllCalls)

\* C14 witness: all calls have finished, for two accounts, the last flush
\* having succeeded.
C14_Witness ==
    /\ AllDone /\ flushOk
    /\ \E t, u \in Threads : tcall[t].acct # tcall[u].acct

\* the store path holds something other than a well-formed store document
Corrupt(raw) ==
    \/ raw.kind \in {"noaccess", "ioerror", "badjson", "notobject", "byusernotmap"}
    \/ raw.kind = "map"
         /\ \E a \in Accounts : raw.entries[a].type \in {"string", "number"}

\* C15: constructing a StateStore on a corrupt or unreadable file does not
\* raise and leaves the in-memory state empty: get_seen is empty for every
\* account.
C15_CorruptLoadsEmpty ==
    (sOut.done /\ sAdds = 0 /\ Corrupt(sIn))
        => /\ ~sOut.raised
           /\ \A a \in Accounts : Seen(a) = {}

NoDuplicates(q) == \A i, j \in 1..Len(q) : q[i] = q[j] => i = j

\* add_seen of an id already on record left the record as it was
Idempotent ==
    (sLast.made /\ sLast.id \in get_seen(sLast.before, sLast.acct))
        => mem = sLast.before

\* C18, as stated: add_seen of a recorded id leaves the record unchanged, and
\* in every state of a store -- constructed on any file, then used -- the id
\* list of each account holds each id at most once.
C18_ListsHoldEachIdOnce ==
    (sOut.done /\ ~sOut.raised)
        => Idempotent /\ \A a \in Accounts : NoDuplicates(mem[a])

\* C18, amended: the same for a store constructed on a file whose arrays give
\* each id once (any file the program wrote itself, or none).
C18_ListsStayDuplicateFree ==
    (sOut.done /\ ~sOut.raised
        /\ \A a \in Accounts : NoDuplicates(LoadFile(sIn, FALSE).data[a]))
        => Idempotent /\ \A a \in Accounts : NoDuplicates(mem[a])

\* C18 witness: add_seen was called with an id the store had loaded for the
\* account, next to another id.
C18_Witness ==
    /\ sLast.made /\ sIn.kind = "map"
    /\ sLast.id \in get_seen(sLast.before, sLast.acct)
    /\ Len(sLast.before[sLast.acct]) = 2 /\ NoDuplicates(sLast.before[sLast.acct])

\* C19: send_photo hands a video of at most MAX_VIDEO_BYTES bytes to the SMTP
\* session as it was given (and it is transmitted when the session accepts
\* it), and hands over nothing for a video of MAX_VIDEO_BYTES + 1 bytes or
\* more, without raising.
C19_VideoGateInclusive ==
    (gOut.done /\ MainType(gIn.ext) = "video")
        => IF gIn.size <= MAX_VIDEO_BYTES
           THEN /\ gOut.r.attempted
                /\ gOut.r.as_given /\ gOut.r.bytes = gIn.size
                /\ gOut.r.transmitted = gIn.smtp_ok
           ELSE gOut.r = NothingSent

\* C19 witness: a video of exactly MAX_VIDEO_BYTES bytes was transmitted.
C19_Witness ==
    /\ gOut.done /\ gIn.ext = "mp4" /\ gIn.size = MAX_VIDEO_BYTES
    /\ gOut.r.transmitted /\ gOut.r.bytes = MAX_VIDEO_BYTES

\* the sides x by y are those of width by height scaled into the box, each
\* within one pixel of the exact value
WithinRounding(width, height, x, y) ==
    IF PIXSTAR_MAX_WIDTH * height <= PIXSTAR_MAX_HEIGHT * width
    THEN x = PIXSTAR_MAX_WIDTH /\ Abs(y * width - PIXSTAR_MAX_WIDTH * height) < width
    ELSE y = PIXSTAR_MAX_HEIGHT /\ Abs(x * height - PIXSTAR_MAX_HEIGHT * width) < height

\* C20: downscale_for_pixstar returns an image of the same size when the input
\* is at most 1024 wide and 768 high; otherwise one at most 1024 wide and 768
\* high with the input's aspect ratio within rounding; it never enlarges.
C20_DownscaleWithinBox ==
    dOut.done
        => LET w == dIn[1]
               h == dIn[2]
               x == dOut.size[1]
               y == dOut.size[2]
           IN  /\ (w <= PIXSTAR_MAX_WIDTH /\ h <= PIXSTAR_MAX_HEIGHT) => <<x, y>> = <<w, h>>
               /\ (w > PIXSTAR_MAX_WIDTH \/ h > PIXSTAR_MAX_HEIGHT)
                     => /\ x <= PIXSTAR_MAX_WIDTH /\ y <= PIXSTAR_MAX_HEIGHT
                        /\ WithinRounding(w, h, x, y)
               /\ 1 <= x /\ x <= w /\ 1 <= y /\ y <= h

\* C20 witness: an image within the width but over the height was shrunk to
\* the full height and a smaller width.
C20_Witness ==
    /\ dOut.done
    /\ dIn[1] <= PIXSTAR_MAX_WIDTH /\ dIn[2] > PIXSTAR_MAX_HEIGHT
    /\ dOut.size[2] = PIXSTAR_MAX_HEIGHT /\ dOut.size[1] < dIn[1]

\* positions of the favorites whose id is not in the set `seen`
Unseen(favs, seen) == {i \in 1..Len(favs) : favs[i].id \notin seen}

\* `cand` is `favs` restricted to the positions `keep`, in the order of `favs`
IsSelection(cand, favs, keep) ==
    /\ Len(cand) = Cardinality(keep)
    /\ \A k \in 1..Len(cand) :
          \E i \in keep : /\ Cardinality({j \in keep : j <= i}) = k
                          /\ cand[k] = favs[i]

\* C21: once a run has its candidate list, the snapshot it was computed from
\* is the seen-set from before the loop and stays that; in normal mode the
\* list is exactly the fetched favorites whose id is not in the snapshot, in
\* forced mode all of them; no asset whose id is in the snapshot is
\* downloaded in normal mode; and the candidates are taken in list order.
C21_CandidatesFromSnapshot ==
    (run \in {"running", "returned"} /\ fetchOk /\ pc # "diff")
        => /\ ~force => /\ seen_ids = SeenAtStart
                        /\ IsSelection(assets_to_send, favorites,
                                       Unseen(favorites, SeenAtStart))
           /\ force => assets_to_send = favorites
           /\ (Downloading /\ ~force) => CurId \notin SeenAtStart
           /\ Len(runLog) <= Len(assets_to_send)
           /\ \A i \in 1..Len(runLog) : runLog[i].id = assets_to_send[i].id
           /\ pc \in {"download", "send"} => idx = Len(runLog) + 1

\* C21 witness: a normal-mode run downloads its only candidate, the second of
\* two fetched favorites, the first being in the snapshot.
C21_Witness ==
    /\ pc = "download" /\ ~force
    /\ Len(favorites) = 2 /\ favorites[1].id \in seen_ids
    /\ assets_to_send = <<favorites[2]>>

FetchedUnderCeiling == fOut.done /\ fIn.max_pages # NoCeiling

\* every page before the last requested one came back full
FullPagesBefore(n) ==
    \A k \in 1..(n - 1) :
        Len(ServerPage(fIn.srv, fIn.page_size, k)) = fIn.page_size

\* without a ceiling (and without a failing request) the walk ends at the
\* first page that is short or empty, and not before
EndsAtShortPage ==
    FetchedPlain
        => /\ ShortPage(ServerPage(fIn.srv, fIn.page_size, fOut.r.requests),
                        fIn.page_size)
           /\ FullPagesBefore(fOut.r.requests)

\* C22, as stated: with a ceiling of M pages get_favorites ends after at most
\* M page requests, however many full pages the server has, for every
\* M >= 0; without a ceiling it ends only when the server returns a short or
\* empty page.
C22_AtMostCeilingRequests ==
    /\ FetchedUnderCeiling => fOut.r.requests <= fIn.max_pages
    /\ EndsAtShortPage

\* C22, amended: at most M page requests for every M >= 1, and one request for
\* M = 0.
C22_AtMostCeilingOrOneRequest ==
    /\ FetchedUnderCeiling => fOut.r.requests <= Max(fIn.max_pages, 1)
    /\ EndsAtShortPage

\* C22 witness: the ceiling ended the walk after M full pages, the server
\* having more items to give.
C22_Witness ==
    /\ FetchedUnderCeiling /\ fIn.fault = NoFault
    /\ fIn.max_pages >= 1 /\ fOut.r.requests = fIn.max_pages
    /\ FullPagesBefore(fIn.max_pages + 1)
    /\ Len(fIn.srv) > fIn.max_pages * fIn.page_size

\* C23: in loop mode every cycle runs sync_account_once once for each
\* configured account, in configured order, and only then sleeps; whatever
\* fails inside a run, the run returns to main() (the process does not end
\* there), so the later accounts are processed in the same cycle; and the next
\* cycle starts again from the first account.
C23_EveryAccountEveryCycle ==
    [][(~args.resend_all /\ pc \in LoopPcs)
          => /\ pc' # "died"
             /\ pc' = "sleep"
                   => (pc = "acct" /\ targets = AccountList
                          /\ pos = Len(AccountList) + 1)
             /\ pc' = "fetch" => (pc = "acct" /\ email' = AccountList[pos])
             /\ (run = "running" /\ run' = "returned")
                   => (pc' = "acct" /\ pos' = pos + 1)
             /\ pc = "sleep" => (pos = 1 /\ pc' \in {"acct", "killed", "stopped"})]_vars

\* C24: an interrupt never ends a loop-mode process between the transmission
\* of an asset and the recording of its id: no asset is left delivered but
\* unrecorded at exit.
C24_InterruptNeverLosesRecord ==
    [][pc' = "stopped"
          => ~(pc = "add_seen" /\ sent = "transmitted" /\ CurId \notin Seen(email))]_vars

====
